---- MODULE Spec2Model ----
(***************************************************************************)
(* Model of the VaaS REST client of vaas-registration-hook                 *)
(* (src/vaas/client.go).                                                   *)
(*                                                                         *)
(* The client is synchronous and keeps no state besides the configuration  *)
(* given to NewClient.  Every client operation is one action; the answers  *)
(* of the HTTP server (httpClient.Do) are the inputs of the action.  The   *)
(* state records the last call: the operation, its arguments, the requests *)
(* it sent in order, the answers it consumed and what it returned.         *)
(*                                                                         *)
(* Strings that take part in formatting or parsing (query values) are      *)
(* sequences of one-character strings.  Query keys are the fixed words of  *)
(* the source ("username", "name", ...), made only of characters that      *)
(* url.QueryEscape leaves alone; each is kept as one token.                *)
(* Pointer arguments (the backend, the director) are taken to be non-nil.  *)
(* One call of httpClient.Do counts as one request.                        *)
(***************************************************************************)
EXTENDS Integers, Sequences, FiniteSets, TLC

VARIABLES username, apiKey, host, op, args, sent, recv, ret

vars == <<username, apiKey, host, op, args, sent, recv, ret>>

(***************************************************************************)
(* net/url: Values, QueryEscape, QueryUnescape, ParseQuery, Encode         *)
(***************************************************************************)

\* The query keys of the source, each one token.
KeyWords == {"address", "api_key", "director", "name", "port", "username"}

\* Characters url.QueryEscape writes unchanged (letters, digits, - _ . ~).
Unreserved ==
    {"a", "b", "u", "k", "w", "0", "1", "2", "3", "4", "5", "6", "7", "8", "9",
     "A", "B", "C", "D", "E", "F", "-", "_", ".", "~"} \cup KeyWords

HexDigit ==
    {"0", "1", "2", "3", "4", "5", "6", "7", "8", "9",
     "A", "B", "C", "D", "E", "F", "a", "b"}

\* fmt "%d" of one decimal digit.
DigitChar(d) ==
    CASE d = 0 -> "0" [] d = 1 -> "1" [] d = 2 -> "2" [] d = 3 -> "3"
      [] d = 4 -> "4" [] d = 5 -> "5" [] d = 6 -> "6" [] d = 7 -> "7"
      [] d = 8 -> "8" [] d = 9 -> "9"

RECURSIVE NatDigits(_)
NatDigits(n) ==
    IF n < 10 THEN <<DigitChar(n)>>
    ELSE NatDigits(n \div 10) \o <<DigitChar(n % 10)>>

\* fmt.Sprintf("%d", n)
SprintfD(n) == IF n < 0 THEN <<"-">> \o NatDigits(0 - n) ELSE NatDigits(n)

\* A query escape that writes every character as it is.
QueryEscapeCharPlain(c) == <<c>>

\* url.QueryEscape on one character.
QueryEscapeChar(c) ==
    IF c \in Unreserved THEN <<c>>
    ELSE IF c = " " THEN <<"+">>
    ELSE IF c = "&" THEN <<"%", "2", "6">>
    ELSE IF c = "=" THEN <<"%", "3", "D">>
    ELSE IF c = "+" THEN <<"%", "2", "B">>
    ELSE IF c = "%" THEN <<"%", "2", "5">>
    ELSE <<"%", "3", "F">>

RECURSIVE QueryEscape(_)
QueryEscape(s) ==
    IF s = <<>> THEN <<>>
    ELSE QueryEscapeChar(Head(s)) \o QueryEscape(Tail(s))

\* The character a %XX triplet stands for.
HexDecode(h1, h2) ==
    IF h1 = "2" /\ h2 = "6" THEN "&"
    ELSE IF h1 = "3" /\ h2 = "D" THEN "="
    ELSE IF h1 = "2" /\ h2 = "B" THEN "+"
    ELSE IF h1 = "2" /\ h2 = "5" THEN "%"
    ELSE "?"

\* url.QueryUnescape: [ok, val]; ok is FALSE on a malformed % escape.
RECURSIVE QueryUnescape(_)
QueryUnescape(s) ==
    IF s = <<>> THEN [ok |-> TRUE, val |-> <<>>]
    ELSE IF Head(s) = "%" THEN
        IF Len(s) < 3 \/ s[2] \notin HexDigit \/ s[3] \notin HexDigit
        THEN [ok |-> FALSE, val |-> <<>>]
        ELSE LET rest == QueryUnescape(SubSeq(s, 4, Len(s)))
             IN  [ok |-> rest.ok, val |-> <<HexDecode(s[2], s[3])>> \o rest.val]
    ELSE LET rest == QueryUnescape(Tail(s))
             c == IF Head(s) = "+" THEN " " ELSE Head(s)
         IN  [ok |-> rest.ok, val |-> <<c>> \o rest.val]

\* Index of the first c in s, or 0.
IndexOf(s, c) ==
    IF \E i \in 1..Len(s) : s[i] = c
    THEN CHOOSE i \in 1..Len(s) : s[i] = c /\ \A j \in 1..(i - 1) : s[j] # c
    ELSE 0

\* url.Values: the (key, value) pairs in insertion order.
Add(vals, key, value) == Append(vals, [key |-> key, value |-> value])

\* url.ParseQuery as used by URL.Query(): pairs that fail to unescape are dropped.
RECURSIVE ParseQuery(_)
ParseQuery(raw) ==
    IF raw = <<>> THEN <<>>
    ELSE LET amp == IndexOf(raw, "&")
             seg == IF amp = 0 THEN raw ELSE SubSeq(raw, 1, amp - 1)
             rest == IF amp = 0 THEN <<>> ELSE SubSeq(raw, amp + 1, Len(raw))
             eq == IndexOf(seg, "=")
             k == QueryUnescape(IF eq = 0 THEN seg ELSE SubSeq(seg, 1, eq - 1))
             v == QueryUnescape(IF eq = 0 THEN <<>> ELSE SubSeq(seg, eq + 1, Len(seg)))
         IN  IF seg = <<>> THEN ParseQuery(rest)
             ELSE IF ~k.ok \/ ~v.ok THEN ParseQuery(rest)
             ELSE <<[key |-> k.val, value |-> v.val]>> \o ParseQuery(rest)

\* Position of a key in the sorted order Values.Encode writes them in.
KeyRank(key) ==
    IF key = <<"address">> THEN 1
    ELSE IF key = <<"api_key">> THEN 2
    ELSE IF key = <<"director">> THEN 3
    ELSE IF key = <<"name">> THEN 4
    ELSE IF key = <<"port">> THEN 5
    ELSE IF key = <<"username">> THEN 6
    ELSE 0

RECURSIVE JoinPairs(_)
JoinPairs(vals) ==
    IF vals = <<>> THEN <<>>
    ELSE LET p == Head(vals)
             one == QueryEscape(p.key) \o <<"=">> \o QueryEscape(p.value)
         IN  IF Len(vals) = 1 THEN one ELSE one \o <<"&">> \o JoinPairs(Tail(vals))

RECURSIVE SortByKey(_, _)
SortByKey(vals, r) ==
    IF r > 6 THEN <<>>
    ELSE SelectSeq(vals, LAMBDA p : KeyRank(p.key) = r) \o SortByKey(vals, r + 1)

\* Values.Encode: "key=value" pairs, escaped, sorted by key, joined by &.
Encode(vals) == JoinPairs(SortByKey(vals, 0))

(***************************************************************************)
(* Values of the API                                                       *)
(***************************************************************************)

apiBackendPath == "/api/v0.1/backend/"
apiDcPath == "/api/v0.1/dc/"
apiDirectorPath == "/api/v0.1/director/"

StatusNotFound == 404

\* Largest number of objects on one page of a listing.
MaxObjects == 2

\* error values: the text of the message, outermost prefix first, and the
\* HTTP status of an API error (0 otherwise).  NoErr is the nil error.
NoErr == [msg |-> <<>>, status |-> 0]
Err(text) == [msg |-> <<text>>, status |-> 0]
ErrTransport == Err("transport")
ErrNewRequest == Err("invalid URL")
ErrReadBody == Err("read body")
ErrDecode == Err("json")
ErrAPI(status) == [msg |-> <<"VaaS API error at %s (HTTP %d): %s">>, status |-> status]
\* fmt.Errorf(prefix + ": %s", err)
Wrap(prefix, err) == [msg |-> <<prefix>> \o err.msg, status |-> err.status]

\* Director{ID, Name}; BackendURLs and ResourceURI play no part.
Directors ==
    { [ID |-> 1, Name |-> <<"a">>],
      [ID |-> 2, Name |-> <<"a", "b">>],
      [ID |-> 3, Name |-> <<"a">>] }
NilDirector == [ID |-> 0, Name |-> <<>>]

\* Backend{ID, Address, Port, ResourceURI}; ID is a pointer, HasID says it is set.
Backends ==
    { [HasID |-> TRUE, ID |-> 7, Address |-> <<"a">>, Port |-> 80, ResourceURI |-> "/api/v0.1/backend/7/"],
      [HasID |-> FALSE, ID |-> 0, Address |-> <<"a">>, Port |-> 80, ResourceURI |-> "/api/v0.1/backend/8/"],
      [HasID |-> TRUE, ID |-> 9, Address |-> <<"a">>, Port |-> 81, ResourceURI |-> "/api/v0.1/backend/9/"],
      [HasID |-> TRUE, ID |-> 10, Address |-> <<"b">>, Port |-> 80, ResourceURI |-> "/api/v0.1/backend/10/"] }
NilBackend == [HasID |-> FALSE, ID |-> 0, Address |-> <<>>, Port |-> 0, ResourceURI |-> ""]

\* DC{ID, Name, Symbol}
DCs ==
    { [ID |-> 3, Name |-> "Warsaw", Symbol |-> "WAW"],
      [ID |-> 4, Name |-> "WAW", Symbol |-> "KRK"],
      [ID |-> 5, Name |-> "Warsaw 2", Symbol |-> "WAW"] }
NilDC == [ID |-> 0, Name |-> "", Symbol |-> ""]

Names == {<<"a">>, <<"a", "b">>}
Addresses == {<<"a">>, <<"b">>}
Ports == {80, 81}
Symbols == {"WAW", "XXX"}
BackendIDs == {7, 12}
\* The director a hook registers its backend under, and the port it serves on.
OwnDirectors == {d \in Directors : d.ID < 3}
OwnPorts == {80}

\* The arguments of NewClient.  url.Parse rejects the host of the last one.
Clients ==
    { [username |-> <<"u">>, apiKey |-> <<"k">>, host |-> "http://vaas"],
      [username |-> <<"u", "&", "a", "=", "b">>, apiKey |-> <<"%", " ", "+", "k">>,
       host |-> "http://vaas"],
      [username |-> <<"u">>, apiKey |-> <<"k">>, host |-> "http://[vaas"] }

Pages(S) == UNION { [1..n -> S] : n \in 0..MaxObjects }

\* The body of a response: unreadable (ReadAll fails), not JSON ("syntax"),
\* JSON with a value of the wrong type ("type": Unmarshal stores the fields
\* it could decode and fails), or JSON that decodes.  objects and next are
\* the page of a listing; address and port are the fields of a backend
\* object, each absent (<<>>) or present (<<v>>).
Body(kind, objects, next, address, port) ==
    [kind |-> kind, objects |-> objects, next |-> next, address |-> address, port |-> port]
EmptyBody == Body("syntax", <<>>, FALSE, <<>>, <<>>)

ListBodies(S, nexts) ==
    { Body("unreadable", <<>>, FALSE, <<>>, <<>>), EmptyBody,
      Body("type", <<>>, FALSE, <<>>, <<>>) }
    \cup { Body("json", p, n, <<>>, <<>>) : p \in Pages(S), n \in nexts }

ObjectBodies ==
    { Body("unreadable", <<>>, FALSE, <<>>, <<>>), EmptyBody }
    \cup { Body(k, <<>>, FALSE, a, p) :
             k \in {"type", "json"}, a \in {<<>>, <<<<"b">>>>}, p \in {<<>>, <<81>>} }

\* The status codes a server answers with; a listing answers with one of
\* ListStatuses.
Statuses == {199, 200, 299, 300, 404, 500}
ListStatuses == {200, 404, 500}
IsOK(s) == s >= 200 /\ s <= 299

\* What httpClient.Do gives back: err # nil (failed), response # nil
\* (present), and the response.  A response next to an error is the redirect
\* the client stopped at.
Response(failed, present, status, location, body) ==
    [failed |-> failed, present |-> present, status |-> status,
     location |-> location, body |-> body]
NoResponse == Response(TRUE, FALSE, 0, "", EmptyBody)

TransportFailures == { NoResponse, Response(TRUE, TRUE, 302, "", EmptyBody) }

\* The body of an answer outside 200..299 only goes into the error text.
Responses(statuses, locations, bodies) ==
    TransportFailures
    \cup { Response(FALSE, TRUE, s, "", EmptyBody) : s \in {t \in statuses : ~IsOK(t)} }
    \cup { Response(FALSE, TRUE, s, l, b) :
              s \in {t \in statuses : IsOK(t)}, l \in locations, b \in bodies }

DirectorListResponses == Responses(ListStatuses, {""}, ListBodies(Directors, BOOLEAN))
BackendListResponses == Responses(ListStatuses, {""}, ListBodies(Backends, {FALSE}))
DCListResponses == Responses(ListStatuses, {""}, ListBodies(DCs, {FALSE}))
CreateResponses == Responses(Statuses, {"", "/api/v0.1/backend/7/"}, ObjectBodies)
DeleteResponses == Responses(Statuses, {""}, {EmptyBody})

(***************************************************************************)
(* newRequest, do, doRequest                                               *)
(***************************************************************************)

\* http.NewRequest fails when the URL does not parse.
ValidURL(h) == h = "http://vaas"

NoRequest == [method |-> "", host |-> "", path |-> "", id |-> <<>>,
              rawQuery |-> <<>>, accept |-> "", contentType |-> "", prefer |-> ""]

\* newRequest: [req, err].  id is the backend id that ends the path of a
\* DELETE, <<>> otherwise.
newRequest(c, method, path, id) ==
    IF ~ValidURL(c.host) THEN [req |-> NoRequest, err |-> ErrNewRequest]
    ELSE LET query == Add(Add(ParseQuery(<<>>), <<"username">>, c.username),
                          <<"api_key">>, c.apiKey)
         IN  [req |-> [method |-> method, host |-> c.host, path |-> path, id |-> id,
                       rawQuery |-> Encode(query), accept |-> "application/json",
                       contentType |-> "application/json", prefer |-> ""],
              err |-> NoErr]

\* query := request.URL.Query(); query.Add(...); request.URL.RawQuery = query.Encode()
WithQuery(req, pairs) ==
    [req EXCEPT !.rawQuery = Encode(ParseQuery(req.rawQuery) \o pairs)]

IsErrorStatusOffByOne(status) == status < 200 \/ status >= 299

\* response.StatusCode < 200 || response.StatusCode > 299
IsErrorStatus(status) == status < 200 \/ status > 299

\* do: [present, status, err]
do(r) ==
    IF r.failed THEN [present |-> r.present, status |-> r.status, err |-> ErrTransport]
    ELSE IF IsErrorStatus(r.status)
    THEN [present |-> TRUE, status |-> r.status, err |-> ErrAPI(r.status)]
    ELSE [present |-> TRUE, status |-> r.status, err |-> NoErr]

\* doRequest(request, v) with v # nil: [err, stored, body].  stored says
\* that Unmarshal wrote into v (all of the body, or the part it decoded).
doRequest(r) ==
    LET d == do(r)
    IN  IF d.err # NoErr THEN [err |-> d.err, stored |-> FALSE, body |-> EmptyBody]
        ELSE IF r.body.kind = "unreadable"
        THEN [err |-> ErrReadBody, stored |-> FALSE, body |-> EmptyBody]
        ELSE IF r.body.kind = "syntax"
        THEN [err |-> ErrDecode, stored |-> FALSE, body |-> EmptyBody]
        ELSE IF r.body.kind = "type"
        THEN [err |-> ErrDecode, stored |-> TRUE, body |-> r.body]
        ELSE [err |-> NoErr, stored |-> TRUE, body |-> r.body]

(***************************************************************************)
(* The operations of the client.  Each gives                               *)
(*   [nonnil, val, err, panicked, sent, recv]:                             *)
(* the returned value (nonnil: the returned pointer is not nil), the       *)
(* returned error, whether the call ended in a run-time panic instead of   *)
(* returning, the requests sent in order and the answers consumed.         *)
(***************************************************************************)

Out(nonnil, val, err, reqs, resps) ==
    [nonnil |-> nonnil, val |-> val, err |-> err, panicked |-> FALSE,
     sent |-> reqs, recv |-> resps]

Panic(reqs, resps) ==
    [nonnil |-> FALSE, val |-> 0, err |-> NoErr, panicked |-> TRUE,
     sent |-> reqs, recv |-> resps]

\* The range loops of the lookups give the first element that matches; the
\* operators below give its index, or 0 when the loop ends without a match.
FirstIn(hits) ==
    IF hits = {} THEN 0 ELSE CHOOSE i \in hits : \A j \in hits : i <= j

IsPrefix(s, t) == Len(s) <= Len(t) /\ SubSeq(t, 1, Len(s)) = s

DirectorMatchesPrefix(director, name) == IsPrefix(name, director.Name)

\* director.Name == name
DirectorMatches(director, name) == director.Name = name

FindDirector(c, name, r) ==
    LET nr == newRequest(c, "GET", apiDirectorPath, <<>>)
        req == WithQuery(nr.req, <<[key |-> <<"name">>, value |-> name]>>)
        dr == doRequest(r)
        i == FirstIn({k \in 1..Len(dr.body.objects) :
                         DirectorMatches(dr.body.objects[k], name)})
    IN  IF nr.err # NoErr THEN Out(FALSE, NilDirector, nr.err, <<>>, <<>>)
        ELSE IF dr.err # NoErr THEN Out(FALSE, NilDirector, dr.err, <<req>>, <<r>>)
        ELSE IF i # 0 THEN Out(TRUE, dr.body.objects[i], NoErr, <<req>>, <<r>>)
        ELSE Out(FALSE, NilDirector, Err("no Director with name %s found"), <<req>>, <<r>>)

\* A FindDirectorID that asks once more after a failure.
FindDirectorIDRetry(c, name, r) ==
    LET f == FindDirector(c, name, r)
        g == FindDirector(c, name, r)
    IN  IF f.err # NoErr
        THEN IF g.err # NoErr
             THEN Out(FALSE, 0, Wrap("cannot determine director ID", g.err),
                      f.sent \o g.sent, f.recv \o g.recv)
             ELSE Out(FALSE, g.val.ID, NoErr, f.sent \o g.sent, f.recv \o g.recv)
        ELSE Out(FALSE, f.val.ID, NoErr, f.sent, f.recv)

FindDirectorID(c, name, r) ==
    LET f == FindDirector(c, name, r)
    IN  IF f.err # NoErr
        THEN Out(FALSE, 0, Wrap("cannot determine director ID", f.err), f.sent, f.recv)
        ELSE Out(FALSE, f.val.ID, NoErr, f.sent, f.recv)

BackendMatchesAddress(backend, address, port) == backend.Address = address

\* backend.Address == address && backend.Port == port
BackendMatches(backend, address, port) ==
    backend.Address = address /\ backend.Port = port

FindBackend(c, director, address, port, r) ==
    LET nr == newRequest(c, "GET", apiBackendPath, <<>>)
        req == WithQuery(nr.req,
                   << [key |-> <<"address">>, value |-> address],
                      [key |-> <<"director">>, value |-> SprintfD(director.ID)],
                      [key |-> <<"port">>, value |-> SprintfD(port)] >>)
        dr == doRequest(r)
        i == FirstIn({k \in 1..Len(dr.body.objects) :
                         BackendMatches(dr.body.objects[k], address, port)})
    IN  IF nr.err # NoErr
        THEN Out(FALSE, NilBackend,
                 Wrap("could not create backend list request", nr.err), <<>>, <<>>)
        ELSE IF dr.err # NoErr
        THEN Out(FALSE, NilBackend, Wrap("backend list fetch failed", dr.err),
                 <<req>>, <<r>>)
        ELSE IF i # 0 THEN Out(TRUE, dr.body.objects[i], NoErr, <<req>>, <<r>>)
        ELSE Out(FALSE, NilBackend, Err("backend not found"), <<req>>, <<r>>)

\* The backend after doRequest(request, backend): Unmarshal wrote the
\* fields of the body it decoded.
Stored(backend, dr) ==
    IF ~dr.stored THEN backend
    ELSE [backend EXCEPT
            !.Address = IF dr.body.address = <<>> THEN @ ELSE dr.body.address[1],
            !.Port = IF dr.body.port = <<>> THEN @ ELSE dr.body.port[1]]

\* A fallback that gives the creation error whatever the lookup found.
FallbackKeepsError(createErr, f) == [val |-> "", err |-> createErr]

\* A fallback that gives the error of the lookup when the lookup fails.
FallbackLookupError(createErr, f) ==
    IF f.err # NoErr THEN [val |-> "", err |-> f.err]
    ELSE [val |-> f.val.ResourceURI, err |-> NoErr]

\* The branch of AddBackend taken when doRequest failed with createErr and
\* FindBackend gave f.
Fallback(createErr, f) ==
    IF f.err # NoErr THEN [val |-> "", err |-> createErr]
    ELSE [val |-> f.val.ResourceURI, err |-> NoErr]

AddBackend(c, backend, director, r1, r2) ==
    LET nr == newRequest(c, "POST", apiBackendPath, <<>>)
        dr == doRequest(r1)
        b == Stored(backend, dr)
        f == FindBackend(c, director, b.Address, b.Port, r2)
        fb == Fallback(dr.err, f)
    IN  IF nr.err # NoErr THEN Out(FALSE, "", nr.err, <<>>, <<>>)
        ELSE IF dr.err # NoErr
        THEN Out(FALSE, fb.val, fb.err, <<nr.req>> \o f.sent, <<r1>> \o f.recv)
        ELSE Out(FALSE, r1.location, NoErr, <<nr.req>>, <<r1>>)

\* A test that takes every answer from 400 up for an absent backend.
IsAbsentAnyError(d) == d.present /\ d.status >= 400

\* response != nil && response.StatusCode == http.StatusNotFound
IsAbsent(d) == d.present /\ d.status = StatusNotFound

DeleteBackend(c, id, r) ==
    LET nr == newRequest(c, "DELETE", apiBackendPath, <<id>>)
        req == [nr.req EXCEPT !.prefer = "respond-async"]
        d == do(r)
    IN  IF nr.err # NoErr THEN Out(FALSE, 0, nr.err, <<>>, <<>>)
        ELSE IF IsAbsent(d) THEN Out(FALSE, 0, NoErr, <<req>>, <<r>>)
        ELSE Out(FALSE, 0, d.err, <<req>>, <<r>>)

GetDC(c, name, r) ==
    LET nr == newRequest(c, "GET", apiDcPath, <<>>)
        dr == doRequest(r)
        i == FirstIn({k \in 1..Len(dr.body.objects) :
                         dr.body.objects[k].Symbol = name})
    IN  IF nr.err # NoErr THEN Out(FALSE, NilDC, nr.err, <<>>, <<>>)
        ELSE IF dr.err # NoErr THEN Out(FALSE, NilDC, dr.err, <<nr.req>>, <<r>>)
        ELSE IF i # 0 THEN Out(TRUE, dr.body.objects[i], NoErr, <<nr.req>>, <<r>>)
        ELSE Out(FALSE, NilDC, Err("no DC with name %s found"), <<nr.req>>, <<r>>)

FindBackendID(c, director, address, port, r1, r2) ==
    LET d == FindDirector(c, director, r1)
        f == FindBackend(c, d.val, address, port, r2)
    IN  IF d.err # NoErr
        THEN Out(FALSE, 0, Wrap("cannot determine director ID", d.err), d.sent, d.recv)
        ELSE IF f.err # NoErr
        THEN Out(FALSE, 0, Err("backend not found"), d.sent \o f.sent, d.recv \o f.recv)
        ELSE IF ~f.val.HasID THEN Panic(d.sent \o f.sent, d.recv \o f.recv)
        ELSE Out(FALSE, f.val.ID, NoErr, d.sent \o f.sent, d.recv \o f.recv)

(***************************************************************************)
(* The state machine: a caller makes one call at a time on the client that *)
(* NewClient built and takes the result before the next call.              *)
(***************************************************************************)

NoArgs == [none |-> TRUE]
\* What the caller holds: the value, the error, or the panic.
Result(out) ==
    [nonnil |-> out.nonnil, val |-> out.val, err |-> out.err, panicked |-> out.panicked]
NoOut == Result(Out(FALSE, 0, NoErr, <<>>, <<>>))

Client == [username |-> username, apiKey |-> apiKey, host |-> host]

\* NewClient(hostname, username, apiKey)
Init ==
    /\ \E c \in Clients :
          /\ username = c.username
          /\ apiKey = c.apiKey
          /\ host = c.host
    /\ op = "idle"
    /\ args = NoArgs
    /\ sent = <<>>
    /\ recv = <<>>
    /\ ret = NoOut

Finish(name, a, out) ==
    /\ op' = name
    /\ args' = a
    /\ sent' = out.sent
    /\ recv' = out.recv
    /\ ret' = Result(out)
    /\ UNCHANGED <<username, apiKey, host>>

CallFindDirector ==
    /\ op = "idle"
    /\ \E name \in Names, r \in DirectorListResponses :
           Finish("FindDirector", [name |-> name], FindDirector(Client, name, r))

CallFindDirectorID ==
    /\ op = "idle"
    /\ \E name \in Names, r \in DirectorListResponses :
           Finish("FindDirectorID", [name |-> name], FindDirectorID(Client, name, r))

CallAddBackend ==
    /\ op = "idle"
    /\ \E address \in Addresses, port \in Ports, director \in OwnDirectors,
          r1 \in CreateResponses, r2 \in BackendListResponses :
           LET backend == [NilBackend EXCEPT !.Address = address, !.Port = port]
           IN  Finish("AddBackend", [backend |-> backend, director |-> director],
                      AddBackend(Client, backend, director, r1, r2))

CallDeleteBackend ==
    /\ op = "idle"
    /\ \E id \in BackendIDs, r \in DeleteResponses :
           Finish("DeleteBackend", [id |-> id], DeleteBackend(Client, id, r))

CallGetDC ==
    /\ op = "idle"
    /\ \E name \in Symbols, r \in DCListResponses :
           Finish("GetDC", [name |-> name], GetDC(Client, name, r))

CallFindBackend ==
    /\ op = "idle"
    /\ \E director \in Directors, address \in Addresses, port \in Ports,
          r \in BackendListResponses :
           Finish("FindBackend",
                  [director |-> director, address |-> address, port |-> port],
                  FindBackend(Client, director, address, port, r))

CallFindBackendID ==
    /\ op = "idle"
    /\ \E director \in Names, address \in Addresses, port \in OwnPorts,
          r1 \in DirectorListResponses, r2 \in BackendListResponses :
           Finish("FindBackendID",
                  [director |-> director, address |-> address, port |-> port],
                  FindBackendID(Client, director, address, port, r1, r2))

\* The caller has the result; the client is ready for the next call.
Return ==
    /\ op # "idle"
    /\ op' = "idle"
    /\ args' = NoArgs
    /\ sent' = <<>>
    /\ recv' = <<>>
    /\ ret' = NoOut
    /\ UNCHANGED <<username, apiKey, host>>

Next ==
    \/ CallFindDirector
    \/ CallFindDirectorID
    \/ CallAddBackend
    \/ CallDeleteBackend
    \/ CallGetDC
    \/ CallFindBackend
    \/ CallFindBackendID
    \/ Return

Spec == Init /\ [][Next]_vars

(***************************************************************************)
(* Properties.  They are stated over what the caller and the server see:   *)
(* the arguments, the requests sent, the answers given and the result.     *)
(***************************************************************************)

\* A request that fails: no answer, a status outside 200..299, or a body
\* that cannot be read or decoded.
RequestFailed(r) == r.failed \/ ~IsOK(r.status) \/ r.body.kind # "json"

\* The error a failed request is reported with.
FailureOf(r) ==
    IF r.failed THEN ErrTransport
    ELSE IF ~IsOK(r.status) THEN ErrAPI(r.status)
    ELSE IF r.body.kind = "unreadable" THEN ErrReadBody
    ELSE ErrDecode

\* The innermost error of a chain of wrapped errors.
Cause(e) == [msg |-> <<e.msg[Len(e.msg)]>>, status |-> e.status]

NotFoundTexts ==
    {"no Director with name %s found", "backend not found", "no DC with name %s found"}
IsNotFound(e) == e # NoErr /\ e.msg[Len(e.msg)] \in NotFoundTexts

\* The request could not be built, so nothing was sent.
BuildFailed == sent = <<>> /\ ret.err # NoErr /\ Cause(ret.err) = ErrNewRequest

\* The values of key among the parsed pairs q of a query string.
ValuesOf(q, key) ==
    LET s == SelectSeq(q, LAMBDA p : p.key = <<key>>)
    IN  [i \in 1..Len(s) |-> s[i].value]

\* The values a server reads for key from the query string of req.
QueryOf(req, key) == ValuesOf(ParseQuery(req.rawQuery), key)

Least(S) == CHOOSE i \in S : \A j \in S : i <= j

\* The elements of page that are the backend req asks for.
AskedFor(req, page) ==
    LET q == ParseQuery(req.rawQuery)
        address == ValuesOf(q, "address")
        port == ValuesOf(q, "port")
    IN  { i \in 1..Len(page) :
            address = <<page[i].Address>> /\ port = <<SprintfD(page[i].Port)>> }

IsBackendListing(req) == req.method = "GET" /\ req.path = apiBackendPath
IsDirectorListing(req) == req.method = "GET" /\ req.path = apiDirectorPath

\* C1: when the create request of AddBackend fails, a backend lookup for the
\* given director follows, and if that lookup succeeds AddBackend returns
\* the resource locator of the backend it located and a nil error.
C1_FallbackLocator ==
    (op = "AddBackend" /\ Len(recv) >= 1 /\ RequestFailed(recv[1])) =>
        /\ Len(recv) = 2
        /\ Len(sent) = 2
        /\ IsBackendListing(sent[2])
        /\ QueryOf(sent[2], "director") = <<SprintfD(args.director.ID)>>
        /\ LET page == recv[2].body.objects
               M == AskedFor(sent[2], page)
           IN  (~RequestFailed(recv[2]) /\ M # {}) =>
                   /\ ret.err = NoErr
                   /\ ret.val = page[Least(M)].ResourceURI

C1_Witness ==
    /\ op = "AddBackend"
    /\ Len(recv) = 2
    /\ recv[1].status = 500
    /\ ~RequestFailed(recv[2])
    /\ Len(recv[2].body.objects) = 2
    /\ ret.err = NoErr
    /\ ret.val = "/api/v0.1/backend/9/"

\* C2: when the create request of AddBackend fails and the lookup fails too
\* (transport, status, decoding, or no matching element), AddBackend returns
\* an empty locator and the error of the create request.
C2_CreationError ==
    (/\ op = "AddBackend"
     /\ Len(recv) = 2
     /\ RequestFailed(recv[1])
     /\ \/ RequestFailed(recv[2])
        \/ AskedFor(sent[2], recv[2].body.objects) = {}) =>
        /\ ret.val = ""
        /\ ret.err = FailureOf(recv[1])

C2_Witness ==
    /\ op = "AddBackend"
    /\ Len(recv) = 2
    /\ ~recv[1].failed
    /\ recv[1].status = 300
    /\ recv[2].failed
    /\ ret.val = ""
    /\ ret.err.status = 300

\* C3 as stated: every 2xx answer to the create request makes AddBackend
\* return its Location header with a nil error, without a lookup.
C3_AnySuccessStatus ==
    (/\ op = "AddBackend"
     /\ Len(recv) >= 1
     /\ ~recv[1].failed
     /\ IsOK(recv[1].status)) =>
        /\ ret.val = recv[1].location
        /\ ret.err = NoErr
        /\ Len(sent) = 1

\* C3 amended: a 2xx answer to the create request whose body is read and
\* decoded makes AddBackend return its Location header with a nil error,
\* without a lookup.
C3_DecodedSuccess ==
    (/\ op = "AddBackend"
     /\ Len(recv) >= 1
     /\ ~recv[1].failed
     /\ IsOK(recv[1].status)
     /\ recv[1].body.kind = "json") =>
        /\ ret.val = recv[1].location
        /\ ret.err = NoErr
        /\ Len(sent) = 1
        /\ Len(recv) = 1

C3_Witness ==
    /\ op = "AddBackend"
    /\ Len(recv) = 1
    /\ recv[1].status = 299
    /\ recv[1].body.kind = "json"
    /\ recv[1].body.address # <<>>
    /\ ret.val = "/api/v0.1/backend/7/"
    /\ ret.err = NoErr

\* C4: DeleteBackend returns a nil error exactly when the server answers
\* with a 2xx status or with 404; any other answer and any transport failure
\* is returned as an error.
C4_DeleteIdempotent ==
    op = "DeleteBackend" =>
        (ret.err = NoErr <=>
            /\ Len(recv) = 1
            /\ ~recv[1].failed
            /\ (IsOK(recv[1].status) \/ recv[1].status = 404))

C4_Witness ==
    /\ op = "DeleteBackend"
    /\ Len(recv) = 1
    /\ recv[1].status = 404
    /\ ret.err = NoErr
    /\ sent[1].prefer = "respond-async"
    /\ sent[1].id = <<args.id>>

\* C5: every request sent carries username and api_key with the values
\* given to NewClient, next to the filter parameters of the operation.
C5_Credentials ==
    \A i \in 1..Len(sent) :
        LET q == ParseQuery(sent[i].rawQuery)
        IN  /\ ValuesOf(q, "username") = <<username>>
            /\ ValuesOf(q, "api_key") = <<apiKey>>
            /\ IsDirectorListing(sent[i]) => Len(ValuesOf(q, "name")) = 1
            /\ IsBackendListing(sent[i]) =>
                  /\ Len(ValuesOf(q, "address")) = 1
                  /\ Len(ValuesOf(q, "director")) = 1
                  /\ Len(ValuesOf(q, "port")) = 1

C5_Witness ==
    /\ op = "FindBackendID"
    /\ Len(sent) = 2
    /\ \E i \in 1..Len(username) : username[i] = "&"
    /\ \E i \in 1..Len(apiKey) : apiKey[i] = "%"
    /\ QueryOf(sent[1], "name") = <<args.director>>
    /\ QueryOf(sent[2], "address") = <<args.address>>

\* C6: after a successful listing FindDirector returns a director exactly
\* when the page holds one whose name equals the name asked for, namely the
\* first such; otherwise it returns a not-found error, whatever the next
\* locator of the page; it sends one request.
C6_ExactFirstPage ==
    (op = "FindDirector" /\ Len(recv) = 1 /\ ~RequestFailed(recv[1])) =>
        LET page == recv[1].body.objects
            M == { i \in 1..Len(page) : page[i].Name = args.name }
        IN  /\ Len(sent) = 1
            /\ ret.nonnil <=> M # {}
            /\ M # {} => ret.val = page[Least(M)] /\ ret.err = NoErr
            /\ M = {} => ret.err = Err("no Director with name %s found")

C6_Witness ==
    /\ op = "FindDirector"
    /\ Len(recv) = 1
    /\ ~RequestFailed(recv[1])
    /\ recv[1].body.next
    /\ args.name = <<"a">>
    /\ Len(recv[1].body.objects) = 2
    /\ \A i \in 1..2 : recv[1].body.objects[i].Name = <<"a", "b">>
    /\ ~ret.nonnil
    /\ IsNotFound(ret.err)

\* C7: a backend FindBackend returns has the address and the port asked
\* for; after a successful listing with no element matching both, the
\* result is a not-found error.
C7_StrictFilter ==
    op = "FindBackend" =>
        /\ ret.nonnil =>
              /\ ret.val.Address = args.address
              /\ ret.val.Port = args.port
              /\ ret.err = NoErr
        /\ (/\ Len(recv) = 1
            /\ ~RequestFailed(recv[1])
            /\ \A i \in 1..Len(recv[1].body.objects) :
                  \/ recv[1].body.objects[i].Address # args.address
                  \/ recv[1].body.objects[i].Port # args.port) =>
              /\ ~ret.nonnil
              /\ ret.err = Err("backend not found")

C7_Witness ==
    /\ op = "FindBackend"
    /\ Len(recv) = 1
    /\ ~RequestFailed(recv[1])
    /\ args.address = <<"b">>
    /\ args.port = 81
    /\ Len(recv[1].body.objects) = 2
    /\ recv[1].body.objects[1].Address = <<"b">>
    /\ recv[1].body.objects[2].Port = 81
    /\ ~ret.nonnil
    /\ IsNotFound(ret.err)

\* C8: FindBackendID never ends in a panic, and when the director and the
\* backend are both found it returns a nil error and the identifier of the
\* backend, also for a backend that carries no identifier.
C8_NoAbort ==
    op = "FindBackendID" =>
        /\ ~ret.panicked
        /\ (/\ Len(recv) = 2
            /\ ~RequestFailed(recv[2])
            /\ AskedFor(sent[2], recv[2].body.objects) # {}) =>
              LET page == recv[2].body.objects
                  b == page[Least(AskedFor(sent[2], page))]
              IN  /\ ret.err = NoErr
                  /\ b.HasID => ret.val = b.ID

\* C9: a lookup reports not-found only after a listing that succeeded; when
\* its last listing failed, the error returned carries that failure.
C9_NotFoundDistinct ==
    (/\ op \in {"FindDirector", "GetDC", "FindBackend", "FindBackendID"}
     /\ Len(recv) >= 1
     /\ RequestFailed(recv[Len(recv)])) =>
        /\ ret.err # NoErr
        /\ ~IsNotFound(ret.err)
        /\ Cause(ret.err) = FailureOf(recv[Len(recv)])

OneRequestOps ==
    {"FindDirector", "FindDirectorID", "GetDC", "FindBackend", "DeleteBackend"}

\* The order of the requests of the two-step operations, and no request
\* sent again after it failed.
OrderedNoRetry ==
    /\ Len(recv) = Len(sent)
    /\ Len(sent) <= 2
    /\ \A i \in 1..Len(sent) : \A j \in (i + 1)..Len(sent) :
          RequestFailed(recv[i]) => sent[j] # sent[i]
    /\ op = "AddBackend" =>
          /\ Len(sent) >= 1 => sent[1].method = "POST" /\ sent[1].path = apiBackendPath
          /\ Len(sent) = 2 => RequestFailed(recv[1]) /\ IsBackendListing(sent[2])
    /\ op = "FindBackendID" =>
          /\ Len(sent) >= 1 => IsDirectorListing(sent[1])
          /\ Len(sent) = 2 =>
                /\ ~RequestFailed(recv[1])
                /\ \E i \in 1..Len(recv[1].body.objects) :
                      recv[1].body.objects[i].Name = args.director
                /\ IsBackendListing(sent[2])

\* C10 as stated: the one-step operations send exactly one request per call,
\* AddBackend and FindBackendID send one or two in order, nothing is sent
\* again.
C10_ExactlyOne ==
    /\ op \in OneRequestOps => Len(sent) = 1
    /\ op \in {"AddBackend", "FindBackendID"} => Len(sent) \in {1, 2}
    /\ OrderedNoRetry

\* C10 amended: the same, but a call sends no request at all when the
\* request cannot be built (the URL of the host does not parse) and then
\* returns that error.
C10_OneUnlessUnbuilt ==
    /\ op \in OneRequestOps => (Len(sent) = 1 \/ BuildFailed)
    /\ op \in {"AddBackend", "FindBackendID"} => (Len(sent) \in {1, 2} \/ BuildFailed)
    /\ op # "idle" /\ ret.err # NoErr /\ Cause(ret.err) = ErrNewRequest => sent = <<>>
    /\ OrderedNoRetry

C10_Witness ==
    /\ op = "FindBackendID"
    /\ Len(sent) = 2
    /\ IsDirectorListing(sent[1])
    /\ IsBackendListing(sent[2])
    /\ recv[2].failed

====
